---------------------------- MODULE Spec2Model ----------------------------
(***************************************************************************)
(* A model of the shader-source composition engine of visvis               *)
(* (src/core/shaders.py): the classes ShaderCodePart and ShaderCode.       *)
(*                                                                         *)
(* Text is modelled by TLA+ strings, on which TLC evaluates Len, SubSeq    *)
(* and \o, so that the Python string methods the code uses (strip,         *)
(* splitlines, split, partition, count, join) are computed character by    *)
(* character.                                                              *)
(***************************************************************************)
EXTENDS Integers, Sequences, FiniteSets, TLC

\* ------------------------------------------------------------------------
\* Python string methods (str of Python 2)
\* ------------------------------------------------------------------------

\* The character s[i-1] of Python, as a string of length 1.
Ch(s, i) == SubSeq(s, i, i)

\* The characters str.strip(), lstrip() and rstrip() remove.
IsSpace(c) == c \in {" ", "\t", "\n", "\r"}

\* s[i:] and s[:k] for i, k >= 0 (Python slices clamp to the length).
SliceFrom(s, i) == SubSeq(s, i + 1, Len(s))

\* s[:k], also for k < 0 (counted from the end).
SliceTo(s, k) ==
    IF k >= 0 THEN SubSeq(s, 1, IF k < Len(s) THEN k ELSE Len(s))
    ELSE SubSeq(s, 1, IF Len(s) + k > 0 THEN Len(s) + k ELSE 0)

RECURSIVE lstrip(_)
lstrip(s) ==
    IF Len(s) > 0 /\ IsSpace(Ch(s, 1)) THEN lstrip(SliceFrom(s, 1)) ELSE s

RECURSIVE rstrip(_)
rstrip(s) ==
    IF Len(s) > 0 /\ IsSpace(Ch(s, Len(s)))
    THEN rstrip(SubSeq(s, 1, Len(s) - 1)) ELSE s

strip(s) == rstrip(lstrip(s))

\* s.startswith(p)
startswith(s, p) == Len(s) >= Len(p) /\ SubSeq(s, 1, Len(p)) = p

\* s.find(sub) + 1 searched from the 1-based position i on; 0 when absent.
RECURSIVE FindFrom(_, _, _)
FindFrom(s, sub, i) ==
    IF i + Len(sub) - 1 > Len(s) THEN 0
    ELSE IF SubSeq(s, i, i + Len(sub) - 1) = sub THEN i
    ELSE FindFrom(s, sub, i + 1)

\* s.count(c) for a one-character c.
RECURSIVE count(_, _)
count(s, c) ==
    IF Len(s) = 0 THEN 0
    ELSE (IF Ch(s, 1) = c THEN 1 ELSE 0) + count(SliceFrom(s, 1), c)

\* sep.join(lines)
RECURSIVE join(_, _)
join(sep, lines) ==
    IF Len(lines) = 0 THEN ""
    ELSE IF Len(lines) = 1 THEN lines[1]
    ELSE lines[1] \o sep \o join(sep, Tail(lines))

\* The position of the first line break of s at or after i; 0 when none.
RECURSIVE BreakFrom(_, _)
BreakFrom(s, i) ==
    IF i > Len(s) THEN 0
    ELSE IF Ch(s, i) \in {"\n", "\r"} THEN i
    ELSE BreakFrom(s, i + 1)

\* s.splitlines(): the lines of s without their line breaks ("\n", "\r" or
\* "\r\n"); a final line break opens no further line.
RECURSIVE splitlines(_)
splitlines(s) ==
    IF Len(s) = 0 THEN << >>
    ELSE LET b == BreakFrom(s, 1) IN
         IF b = 0 THEN << s >>
         ELSE LET e == IF Ch(s, b) = "\r" /\ b < Len(s) /\ Ch(s, b + 1) = "\n"
                       THEN b + 1 ELSE b
              IN << SubSeq(s, 1, b - 1) >> \o splitlines(SliceFrom(s, e))

\* s.split(sep) for a non-empty sep: the pieces between the occurrences of
\* sep, found from left to right without overlap.  (An empty sep makes
\* Python raise ValueError; the callers test for it.)
RECURSIVE split(_, _)
split(s, sep) ==
    LET p == FindFrom(s, sep, 1) IN
    IF p = 0 THEN << s >>
    ELSE << SubSeq(s, 1, p - 1) >> \o split(SliceFrom(s, p + Len(sep) - 1), sep)

\* s.partition(sep) for a non-empty sep: (head, sep, tail) at the first
\* occurrence of sep, (s, '', '') when there is none.
partition(s, sep) ==
    LET p == FindFrom(s, sep, 1) IN
    IF p = 0 THEN << s, "", "" >>
    ELSE << SubSeq(s, 1, p - 1), sep, SliceFrom(s, p + Len(sep) - 1) >>

\* n * ' '
RECURSIVE Spaces(_)
Spaces(n) == IF n <= 0 THEN "" ELSE " " \o Spaces(n - 1)

\* A minimum that keeps its first argument.
min_Left(a, b) == a

\* min(a, b)
min(a, b) == IF a < b THEN a ELSE b

\* ------------------------------------------------------------------------
\* class ShaderCodePart
\* ------------------------------------------------------------------------

\* The initial value of minIndent in _stripCode.
MinIndentStart == 99999999

\* The first loop of _stripCode over code.splitlines(): st holds lines1,
\* minIndent and encounteredRealLine.
RECURSIVE StripScan(_, _)
StripScan(lines, st) ==
    IF Len(lines) = 0 THEN st
    ELSE LET line1 == Head(lines)
             line2 == lstrip(line1)
             line3 == rstrip(line2)
             keep  == st.encounteredRealLine \/ line3 # ""
             st2   == [lines1 |-> IF keep THEN Append(st.lines1, line1)
                                  ELSE st.lines1,
                       minIndent |-> IF line3 # ""
                                     THEN min(st.minIndent, Len(line1) - Len(line2))
                                     ELSE st.minIndent,
                       encounteredRealLine |-> st.encounteredRealLine \/ line3 # ""]
         IN StripScan(Tail(lines), st2)

\* ShaderCodePart._stripCode(code): the canonical source of a part.
_stripCode(code) ==
    LET RemoveIndent(st) ==
            join("\n", [k \in 1..Len(st.lines1) |->
                           rstrip(SliceFrom(st.lines1[k], st.minIndent))])
    IN RemoveIndent(StripScan(splitlines(rstrip(code)),
                              [lines1 |-> << >>, minIndent |-> MinIndentStart,
                               encounteredRealLine |-> FALSE]))

\* A ShaderCodePart that keeps the code as it was given.
ShaderCodePart_Raw(name, version, code) ==
    [name |-> name, version |-> version, code |-> code]

\* ShaderCodePart.__init__(name, version, code)
ShaderCodePart(name, version, code) ==
    [name |-> name, version |-> version, code |-> _stripCode(code)]

\* The first loop of CollectSections: st holds sections, sections_raw and
\* lastLinenr; linenr is the number of the line at the head of lines.
RECURSIVE NeedleScan(_, _, _)
NeedleScan(lines, linenr, st) ==
    IF Len(lines) = 0 THEN st
    ELSE LET line == Head(lines)
             n    == Len(st.sections)
             st2  ==
                IF ~startswith(line, ">>") THEN st
                ELSE IF linenr = st.lastLinenr + 1
                THEN [sections |-> [st.sections EXCEPT
                                      ![n] = @ \o "\n" \o lstrip(SliceFrom(line, 2))],
                      sections_raw |-> [st.sections_raw EXCEPT
                                      ![n] = @ \o "\n" \o line],
                      lastLinenr |-> linenr]
                ELSE [sections |-> Append(st.sections, lstrip(SliceFrom(line, 2))),
                      sections_raw |-> Append(st.sections_raw, line),
                      lastLinenr |-> linenr]
         IN NeedleScan(Tail(lines), linenr + 1, st2)

\* The second loop of CollectSections: code.partition(section_raw) for each
\* raw needle in turn, collecting the text in front of it; the rest of the
\* code is appended at the end.
RECURSIVE CodeScan(_, _, _)
CodeScan(raws, code, codes) ==
    IF Len(raws) = 0 THEN Append(codes, code)
    ELSE LET pt == partition(code, Head(raws))
         IN CodeScan(Tail(raws), pt[3], Append(codes, pt[1]))

\* ShaderCodePart.CollectSections(): the needles and, for each, the code
\* that replaces it.
CollectSections(code) ==
    LET CleanUp(codes) ==
            [k \in 1..Len(codes) |-> rstrip(SliceFrom(codes[k], 1)) \o "\n"]
        Collect(st) ==
            [sections |-> st.sections,
             codes |-> CleanUp(Tail(CodeScan(st.sections_raw, code, << >>)))]
    IN Collect(NeedleScan(splitlines(code), 1,
                          [sections |-> << >>, sections_raw |-> << >>,
                           lastLinenr |-> -10]))

\* ------------------------------------------------------------------------
\* ShaderCode._Compile
\* ------------------------------------------------------------------------

\* The result of a computation that raised.  (The lines are unused.)
Raised == [raised |-> TRUE, lines |-> << >>]

\* The result of a computation that returned the buffer lines.
Returned(lines) == [raised |-> FALSE, lines |-> lines]

\* A matching text in which the lines keep their indentation.
dedentCode_Keep(lines) ==
    join("\n", [k \in 1..Len(lines) |-> lines[k][1]])

\* dedentCode(lines) of _Compile: the matching text, each line stripped.
dedentCode(lines) ==
    join("\n", [k \in 1..Len(lines) |-> strip(lines[k][1])])

\* An indentation that is never counted.
IndentOf_Zero(line) == 0

\* len(line) - len(line.lstrip())
IndentOf(line) == Len(line) - Len(lstrip(line))

\* The body of the loop "for i in range(len(splittedCode)-1)" of _Compile
\* for the piece splittedCode[i] (1-based here): totalLines[nr1:nr2] is
\* popped and the lines of code are inserted at nr1.  totalLines[nr1] and
\* totalLines.pop(ii) raise IndexError beyond the end of the list.
ReplaceOccurrence(totalLines, piece, section, code, name) ==
    LET Insert(nr1, nr2, new) ==
            IF nr1 >= Len(totalLines) THEN Raised
            ELSE IF nr2 - 1 >= Len(totalLines) THEN Raised
            ELSE LET originalIndent == IndentOf(totalLines[nr1 + 1][1])
                 IN Returned(SubSeq(totalLines, 1, nr1)
                        \o [k \in 1..Len(new) |->
                               << Spaces(originalIndent) \o new[k], name >>]
                        \o SubSeq(totalLines, nr2 + 1, Len(totalLines)))
    IN Insert(count(piece, "\n"),
              count(piece, "\n") + 1 + count(section, "\n"),
              splitlines(code))

\* The loop over the occurrences, from piece i on.  splittedCode is computed
\* once, before the loop, from the matching text of before the loop.
RECURSIVE ReplaceOccurrences(_, _, _, _, _, _)
ReplaceOccurrences(totalLines, splittedCode, i, section, code, name) ==
    LET Continue(r) ==
            IF r.raised THEN Raised
            ELSE ReplaceOccurrences(r.lines, splittedCode, i + 1, section, code, name)
    IN IF i > Len(splittedCode) - 1 THEN Returned(totalLines)
       ELSE Continue(ReplaceOccurrence(totalLines, splittedCode[i],
                                       section, code, name))

\* A section loop that matches every section against the matching text of
\* before the first section.
RECURSIVE ApplySections_Stale(_, _, _, _, _)
ApplySections_Stale(totalLines, totalCode, secs, k, name) ==
    LET Continue(r) ==
            IF r.raised THEN Raised
            ELSE ApplySections_Stale(r.lines, totalCode, secs, k + 1, name)
        Replace(splittedCode) ==
            IF Len(splittedCode) = 1
            THEN ApplySections_Stale(totalLines, totalCode, secs, k + 1, name)
            ELSE Continue(ReplaceOccurrences(totalLines, splittedCode, 1,
                                             secs.sections[k], secs.codes[k], name))
    IN IF k > Len(secs.sections) \/ k > Len(secs.codes) THEN Returned(totalLines)
       ELSE IF secs.sections[k] = "" THEN Raised
       ELSE Replace(split(totalCode, secs.sections[k]))

\* The loop "for section, code in zip(partSections, partCodes)" of _Compile,
\* from section k on.  totalCode.split(section) raises ValueError for an
\* empty section; totalCode is set anew after the occurrences of a section
\* were replaced.
RECURSIVE ApplySections(_, _, _, _, _)
ApplySections(totalLines, totalCode, secs, k, name) ==
    LET Continue(r) ==
            IF r.raised THEN Raised
            ELSE ApplySections(r.lines, dedentCode(r.lines), secs, k + 1, name)
        Replace(splittedCode) ==
            IF Len(splittedCode) = 1
            THEN ApplySections(totalLines, totalCode, secs, k + 1, name)
            ELSE Continue(ReplaceOccurrences(totalLines, splittedCode, 1,
                                             secs.sections[k], secs.codes[k], name))
    IN IF k > Len(secs.sections) \/ k > Len(secs.codes) THEN Returned(totalLines)
       ELSE IF secs.sections[k] = "" THEN Raised
       ELSE Replace(split(totalCode, secs.sections[k]))

\* A _Compile that leaves the needle lines of the first part out of the
\* buffer.
RECURSIVE CompileLoop_NoNeedleLines(_, _)
CompileLoop_NoNeedleLines(ps, totalLines) ==
    LET Seed(ls, name) ==
            CompileLoop_NoNeedleLines(Tail(ps),
                                      [k \in 1..Len(ls) |-> << ls[k], name >>])
        Continue(r) ==
            IF r.raised THEN Raised ELSE CompileLoop_NoNeedleLines(Tail(ps), r.lines)
    IN IF Len(ps) = 0 THEN Returned(totalLines)
       ELSE IF Len(totalLines) = 0
       THEN Seed(SelectSeq(splitlines(Head(ps).code),
                           LAMBDA l : ~startswith(l, ">>")),
                 Head(ps).name)
       ELSE Continue(ApplySections(totalLines, dedentCode(totalLines),
                                   CollectSections(Head(ps).code), 1,
                                   Head(ps).name))

\* The loop "for part in self.parts" of _Compile over the part objects ps.
\* At the head of the loop body totalCode is dedentCode(totalLines).
RECURSIVE CompileLoop(_, _)
CompileLoop(ps, totalLines) ==
    LET Seed(ls, name) ==
            CompileLoop(Tail(ps), [k \in 1..Len(ls) |-> << ls[k], name >>])
        Continue(r) ==
            IF r.raised THEN Raised ELSE CompileLoop(Tail(ps), r.lines)
    IN IF Len(ps) = 0 THEN Returned(totalLines)
       ELSE IF Len(totalLines) = 0
       THEN Seed(splitlines(Head(ps).code), Head(ps).name)
       ELSE Continue(ApplySections(totalLines, dedentCode(totalLines),
                                   CollectSections(Head(ps).code), 1,
                                   Head(ps).name))

\* ------------------------------------------------------------------------
\* The part objects and the argument values of the calls
\* ------------------------------------------------------------------------

\* The ShaderCodePart objects that exist; an object is identified by its
\* index.  Objects 1 and 3 have the same name; object 4 has the empty
\* name, and its needle is text of object 2; as a part that is not the
\* first, object 3 has a needle line with nothing behind the '>>'.
PartPool ==
    << ShaderCodePart("A", "1", "\n  a;\n    b;\n  c;\n"),
       ShaderCodePart("B", "1", ">>b;\nd;\ne;"),
       ShaderCodePart("A", "2", "  a;\n  >>\n  g;"),
       ShaderCodePart("", "1", ">>d;\nh;") >>

PartIds == DOMAIN PartPool

\* The names of the part objects, and a name that no part has.
PartNameSet == {PartPool[i].name : i \in PartIds} \cup {"Z"}

\* Python values passed as arguments: None, a string, a ShaderCodePart
\* object (by its index in PartPool), an integer.
NoneArg == [kind |-> "None", str |-> "", id |-> 0]

StrArg(s) == [kind |-> "str", str |-> s, id |-> 0]

PartArg(i) == [kind |-> "part", str |-> "", id |-> i]

IntArg(n) == [kind |-> "int", str |-> "", id |-> n]

\* The truth value of a Python value, as 'if before' and 'if name' take it:
\* None, '' and 0 are false; an object without __len__ is true.
Truthy(v) ==
    CASE v.kind = "None" -> FALSE
      [] v.kind = "str"  -> v.str # ""
      [] v.kind = "int"  -> v.id # 0
      [] OTHER           -> TRUE

\* The values tried for the part argument of AddPart, ReplacePart and
\* AddOrReplace: every part object, and a string, which is no part.
PartValues == {PartArg(i) : i \in PartIds} \cup {StrArg("A")}

\* The values tried where a part or a part name is expected.
AnyValues ==
    {NoneArg} \cup {StrArg(n) : n \in PartNameSet}
              \cup {PartArg(i) : i \in PartIds} \cup {IntArg(0), IntArg(7)}

\* The values tried for the argument of HasPart and of ShowCode.
QueryValues ==
    {NoneArg, StrArg("A"), StrArg(""), StrArg("Z"), PartArg(2), PartArg(3),
     IntArg(7)}

\* The values tried for before and for after when one of them is given.
AnchorValues ==
    {StrArg("A"), StrArg(""), StrArg("Z"), PartArg(2), PartArg(3),
     IntArg(0), IntArg(7)}

\* The (before, after) pairs tried when both are given.
BothPairs ==
    { << StrArg("A"), PartArg(2) >>, << PartArg(3), StrArg("Z") >>,
      << StrArg(""), StrArg("A") >>, << IntArg(7), IntArg(0) >> }

\* The (before, after) pairs tried for AddPart.
AnchorPairs ==
    {<< NoneArg, NoneArg >>}
        \cup {<< b, NoneArg >> : b \in AnchorValues}
        \cup {<< NoneArg, a >> : a \in AnchorValues}
        \cup BothPairs

\* The (before, after) pairs tried for AddOrReplace.
AddOrReplacePairs ==
    { << NoneArg, NoneArg >>, << StrArg("A"), NoneArg >>,
      << NoneArg, PartArg(2) >>, << StrArg("Z"), NoneArg >>,
      << StrArg("A"), PartArg(2) >> }

\* The values tried for columnLimit of ShowCode: the default and a small one.
ColumnLimitDefault == 79

ColumnLimitSmall == 7

ColumnLimits == {ColumnLimitDefault, ColumnLimitSmall}

\* ------------------------------------------------------------------------
\* class ShaderCode: the state
\* ------------------------------------------------------------------------

VARIABLES
    parts,                \* self._parts: the part objects (indices in PartPool)
    buffer,               \* self._buffer: None, or the lines (line, partName)
    dirtyForProgramFlag,  \* self._dirtyForProgramFlag
    last,                 \* the last call: its arguments and its outcome
    sources,              \* the source texts the given parts were made from
    given,                \* the part objects a composition is made of
    nparts,               \* how many of them were added to the ShaderCode
    composed,             \* what _Compile made of the parts added so far
    uniforms,             \* self._uniforms: name -> value
    invoked,              \* how often each producer was invoked (modulo 2)
    lastEnabled,          \* the textures the last _ApplyUniforms enabled
    ulast                 \* the last call of a uniform method: its outcome

\* The attributes of a ShaderCode that hold its parts, those of a
\* composition of given parts, and those that hold its uniforms.
codeVars == << parts, buffer, dirtyForProgramFlag, last >>

composeVars == << sources, given, nparts, composed >>

uniformVars == << uniforms, invoked, lastEnabled, ulast >>

vars == << parts, buffer, dirtyForProgramFlag, last, sources, given, nparts,
           composed, uniforms, invoked, lastEnabled, ulast >>

\* self._buffer = None
None == [isNone |-> TRUE, lines |-> << >>]

\* self._buffer = totalLines
Lines(totalLines) == [isNone |-> FALSE, lines |-> totalLines]

\* The property partNames of a list ps of part objects.
partNames(ps) == [k \in 1..Len(ps) |-> PartPool[ps[k]].name]

\* x in seq
In(x, seq) == \E k \in 1..Len(seq) : seq[k] = x

\* seq.index(x), 0-based, for an x that is in seq: the first position.
index(seq, x) == (CHOOSE k \in 1..Len(seq) :
                     seq[k] = x /\ \A j \in 1..(k - 1) : seq[j] # x) - 1

\* seq.insert(i, x) for 0 <= i: x comes in front of seq[i], or at the end.
insert(seq, i, x) ==
    IF i >= Len(seq) THEN Append(seq, x)
    ELSE SubSeq(seq, 1, i) \o << x >> \o SubSeq(seq, i + 1, Len(seq))

\* seq.pop(i) for 0 <= i < len(seq): the list that is left.
pop(seq, i) == SubSeq(seq, 1, i) \o SubSeq(seq, i + 2, Len(seq))

\* _IndexOfPart that finds a part object by its name, not by identity.
_IndexOfPart_ByName(ps, part) ==
    CASE part.kind = "str" ->
            IF ~In(part.str, partNames(ps)) THEN -1
            ELSE index(partNames(ps), part.str)
      [] part.kind = "part" ->
            IF ~In(PartPool[part.id].name, partNames(ps)) THEN -1
            ELSE index(partNames(ps), PartPool[part.id].name)
      [] OTHER -> -1

\* What _IndexOfPart gives when it raises ValueError.
NotPresent == -1

\* ShaderCode._IndexOfPart(part) on the part list ps: the 0-based index of
\* the part of that name (a string) or of that object (a part); NotPresent
\* stands for the ValueError it raises.
_IndexOfPart(ps, part) ==
    CASE part.kind = "str" ->
            IF ~In(part.str, partNames(ps)) THEN NotPresent
            ELSE index(partNames(ps), part.str)
      [] part.kind = "part" ->
            IF ~In(part.id, ps) THEN NotPresent
            ELSE index(ps, part.id)
      [] OTHER -> NotPresent

\* The lists of at most n part objects.
RECURSIVE PartLists(_)
PartLists(n) ==
    IF n = 0 THEN {<< >>}
    ELSE LET Longer(shorter) ==
                 shorter \cup {Append(ps, i) : ps \in shorter, i \in PartIds}
         IN Longer(PartLists(n - 1))

\* _Compile for every part list, computed once: _Compile reads nothing but
\* the parts.
CompileTable ==
    [ps \in PartLists(Cardinality(PartIds)) |->
        CompileLoop([k \in 1..Len(ps) |-> PartPool[ps[k]]], << >>)]

\* ShaderCode._Compile() on the part list ps: the lines of the new buffer,
\* or that it raised.
_Compile(ps) == CompileTable[ps]

\* '\n'.join([t[0] for t in self._buffer])
CodeOf(lines) == join("\n", [k \in 1..Len(lines) |-> lines[k][1]])

\* The outcome of a call: whether it raised, the state it leaves, what it
\* returned (a string, or a boolean) and how often it ran _Compile.
Outcome(raised, ps, buf, flag, retStr, retBool, compiled) ==
    [raised |-> raised, parts |-> ps, buffer |-> buf, flag |-> flag,
     retStr |-> retStr, retBool |-> retBool, compiled |-> compiled]

\* A raise that comes after the buffer was set to None.
Raise_Dirty == Outcome(TRUE, parts, None, dirtyForProgramFlag, "", FALSE, 0)

\* A call that raised before it changed anything.
Raise == Outcome(TRUE, parts, buffer, dirtyForProgramFlag, "", FALSE, 0)

\* A call that returned None and left the part list ps and no buffer.
Changed(ps) == Outcome(FALSE, ps, None, dirtyForProgramFlag, "", FALSE, 0)

\* ------------------------------------------------------------------------
\* class ShaderCode: the methods
\* ------------------------------------------------------------------------

\* AlreadyExists without the test: a part of a name that is present is added.
AlreadyExists_Never(name) == FALSE

\* AlreadyExists that looks at the first part only.
AlreadyExists_First(name) == Len(parts) > 0 /\ partNames(parts)[1] = name

\* 'part.name in self.partNames' of AddPart.
AlreadyExists(name) == In(name, partNames(parts))

\* ShaderCode.AddPart(part, before, after)
DoAddPart(part, before, after) ==
    LET InsertAt(i, offset) ==
            IF i = NotPresent THEN Raise
            ELSE Changed(insert(parts, i + offset, part.id))
    IN IF part.kind # "part" THEN Raise
       ELSE IF AlreadyExists(PartPool[part.id].name) THEN Raise
       ELSE IF Truthy(before) /\ Truthy(after) THEN Raise
       ELSE IF Truthy(before) THEN InsertAt(_IndexOfPart(parts, before), 0)
       ELSE IF Truthy(after) THEN InsertAt(_IndexOfPart(parts, after), 1)
       ELSE Changed(Append(parts, part.id))

\* ReplacePart that does not signal dirty: the buffer is kept.
DoReplacePart_KeepBuffer(part) ==
    IF part.kind # "part" THEN Raise
    ELSE IF ~In(PartPool[part.id].name, partNames(parts)) THEN Raise
    ELSE Outcome(FALSE,
                 [k \in 1..Len(parts) |->
                     IF PartPool[parts[k]].name = PartPool[part.id].name
                     THEN part.id ELSE parts[k]],
                 buffer, dirtyForProgramFlag, "", FALSE, 0)

\* ReplacePart that removes the part of that name and appends the new one.
DoReplacePart_Append(part) ==
    IF part.kind # "part" THEN Raise
    ELSE IF ~In(PartPool[part.id].name, partNames(parts)) THEN Raise
    ELSE Changed(Append(SelectSeq(parts,
                     LAMBDA i : PartPool[i].name # PartPool[part.id].name),
                 part.id))

\* ShaderCode.ReplacePart(part)
DoReplacePart(part) ==
    LET SetAt(i) ==
            IF i = NotPresent THEN Raise
            ELSE Changed([parts EXCEPT ![i + 1] = part.id])
    IN IF part.kind # "part" THEN Raise
       ELSE SetAt(_IndexOfPart(parts, StrArg(PartPool[part.id].name)))

\* ShaderCode.HasPart(part)
DoHasPart(part) ==
    CASE part.kind = "str" ->
            Outcome(FALSE, parts, buffer, dirtyForProgramFlag, "",
                    In(part.str, partNames(parts)), 0)
      [] part.kind = "part" ->
            Outcome(FALSE, parts, buffer, dirtyForProgramFlag, "",
                    In(part.id, parts), 0)
      [] OTHER -> Raise

\* AddOrReplace that removes a part of that name and then adds the new one
\* at the place before and after give.
DoAddOrReplace_RemoveAdd(part, before, after) ==
    LET rest == IF part.kind = "part"
                THEN SelectSeq(parts,
                         LAMBDA i : PartPool[i].name # PartPool[part.id].name)
                ELSE parts
        InsertAt(i, offset) ==
            IF i = NotPresent THEN Raise
            ELSE Changed(insert(rest, i + offset, part.id))
    IN IF part.kind # "part" THEN Raise
       ELSE IF Truthy(before) /\ Truthy(after) THEN Raise
       ELSE IF Truthy(before) THEN InsertAt(_IndexOfPart(rest, before), 0)
       ELSE IF Truthy(after) THEN InsertAt(_IndexOfPart(rest, after), 1)
       ELSE Changed(Append(rest, part.id))

\* ShaderCode.AddOrReplace(part, before, after).  part.name raises
\* AttributeError for a value that is no part.
DoAddOrReplace(part, before, after) ==
    IF part.kind # "part" THEN Raise
    ELSE IF DoHasPart(StrArg(PartPool[part.id].name)).retBool
    THEN DoReplacePart(part)
    ELSE DoAddPart(part, before, after)

\* RemovePart that leaves the buffer as it is.
DoRemovePart_KeepBuffer(part) ==
    IF _IndexOfPart(parts, part) = NotPresent
    THEN Outcome(FALSE, parts, buffer, dirtyForProgramFlag, "", FALSE, 0)
    ELSE Outcome(FALSE, pop(parts, _IndexOfPart(parts, part)), buffer,
                 dirtyForProgramFlag, "", TRUE, 0)

\* ShaderCode.RemovePart(part)
DoRemovePart(part) ==
    LET Pop(i) ==
            IF i = NotPresent
            THEN Outcome(FALSE, parts, buffer, dirtyForProgramFlag, "", FALSE, 0)
            ELSE Outcome(FALSE, pop(parts, i), None, dirtyForProgramFlag, "", TRUE, 0)
    IN Pop(_IndexOfPart(parts, part))

\* Clear that builds the (empty) buffer at once.
DoClear_Eager ==
    Outcome(FALSE, << >>, Lines(<< >>), dirtyForProgramFlag, "", FALSE, 1)

\* ShaderCode.Clear()
DoClear == Changed(<< >>)

\* _isDirty that tests 'not self._buffer': an empty buffer counts as dirty.
_isDirty_Falsy == buffer.isNone \/ Len(buffer.lines) = 0

\* The property _isDirty: whether the buffer is None.  (Its effect on
\* _dirtyForProgramFlag is FlagAfterIsDirty.)
_isDirty == buffer.isNone

\* _dirtyForProgramFlag after the property _isDirty was read.
FlagAfterIsDirty == IF _isDirty THEN TRUE ELSE dirtyForProgramFlag

\* ShaderCode.GetCode()
DoGetCode ==
    LET Compiled(r) ==
            IF r.raised
            THEN Outcome(TRUE, parts, buffer, FlagAfterIsDirty, "", FALSE, 1)
            ELSE Outcome(FALSE, parts, Lines(r.lines), FlagAfterIsDirty,
                         CodeOf(r.lines), FALSE, 1)
    IN IF _isDirty THEN Compiled(_Compile(parts))
       ELSE Outcome(FALSE, parts, buffer, FlagAfterIsDirty,
                    CodeOf(buffer.lines), FALSE, 0)

\* The decimal digits of n >= 0.
RECURSIVE IntStr(_)
IntStr(n) ==
    IF n < 10 THEN Ch("0123456789", n + 1)
    ELSE IntStr(n \div 10) \o Ch("0123456789", (n % 10) + 1)

\* '%03i' % n for n >= 0
Fmt03(n) ==
    LET d == IntStr(n)
    IN IF Len(d) >= 3 THEN d ELSE SubSeq("000", 1, 3 - Len(d)) \o d

\* The line ShowCode prints for buffer line number linenr.
ShowLine(linenr, line, columnLimit) ==
    LET line2 == Fmt03(linenr) \o "|" \o line
    IN IF Len(line2) > columnLimit
       THEN SliceTo(line2, columnLimit - 3) \o "..."
       ELSE line2

\* The loop of ShowCode over the buffer lines from line number linenr on:
\* the lines printed.  name is None or a string.
RECURSIVE ShowLines(_, _, _, _)
ShowLines(lines, linenr, name, columnLimit) ==
    IF linenr > Len(lines) THEN << >>
    ELSE IF ~Truthy(name) \/ name.str = lines[linenr][2]
    THEN << ShowLine(linenr, lines[linenr][1], columnLimit) >>
         \o ShowLines(lines, linenr + 1, name, columnLimit)
    ELSE ShowLines(lines, linenr + 1, name, columnLimit)

\* ShaderCode.ShowCode(part, columnLimit); retStr is the text printed.
DoShowCode(part, columnLimit) ==
    LET Show(g, name) ==
            IF g.raised THEN g
            ELSE IF part.kind \notin {"None", "str", "part"}
            THEN [g EXCEPT !.raised = TRUE, !.retStr = ""]
            ELSE IF Truthy(name) /\ ~In(name.str, partNames(parts))
            THEN [g EXCEPT !.raised = TRUE, !.retStr = ""]
            ELSE [g EXCEPT !.retStr =
                    join("\n", ShowLines(g.buffer.lines, 1, name, columnLimit))]
    IN Show(DoGetCode,
            CASE part.kind = "None" -> NoneArg
              [] part.kind = "str"  -> part
              [] part.kind = "part" -> StrArg(PartPool[part.id].name)
              [] OTHER -> NoneArg)

\* The property _isDirtyForProgram
DoIsDirtyForProgram ==
    Outcome(FALSE, parts, buffer, FALSE, "", FlagAfterIsDirty, 0)

\* ------------------------------------------------------------------------
\* Compositions of given parts
\* ------------------------------------------------------------------------

\* The longest source text of which every text is tried, and the characters
\* the texts are made of.
MaxSourceLen == 6

Alphabet == {"a", " ", "\n", ">"}

\* The texts of at most n characters.
RECURSIVE Texts(_)
Texts(n) ==
    IF n = 0 THEN {""}
    ELSE LET Longer(shorter) ==
                 shorter \cup {t \o c : t \in shorter, c \in Alphabet}
         IN Longer(Texts(n - 1))

\* Source texts of parts: a base with indented lines, the empty text,
\* needles that occur in the base, in the body of another part or nowhere
\* (one that differs from a line of the base in case only),
\* a needle line with nothing behind the marker, a needle of two lines, a
\* text in front of the first needle and an empty body, a base with a
\* needle line, a base with the same line twice, a base with a tab and with
\* the needle's text in the middle of a line, a part of two sections, a part
\* whose second needle is a line of its first body and whose third needle
\* is the first again, a part whose first needle differs from a line of the
\* base in case only and that has the text of its second needle line at
\* the end of a line of its first body.
SourcePool ==
    << "  a;\n    b;\n  c;",
       "",
       ">>b;\nd;\n  e;",
       ">>d;\nh;",
       ">>\ng;",
       ">>a;\n>> b;\nx;",
       "x;\n>>c;\n",
       ">>C;\ny;",
       "a;\n>>a;\nb;",
       "b;\n\n b;",
       "q;\n\tp(b;) r",
       ">>c;\nb;\n>>a;\nd;",
       ">>b;\nq;\n>>q;\nr;\n>>b;\nz;",
       ">>A;\nx = y >>b;\n>>b;\nz;" >>

\* The largest number of parts of a composition.
MaxParts == 3

\* The name of the k-th part of a composition.
ComposeName(k) == Ch("ABCDEFGH", k)

\* The sequences of at most n different indices of SourcePool.
RECURSIVE IndexLists(_)
IndexLists(n) ==
    IF n = 0 THEN {<< >>}
    ELSE LET Longer(shorter) ==
                 shorter \cup {Append(l, i) : l \in shorter,
                                              i \in DOMAIN SourcePool}
         IN {l \in Longer(IndexLists(n - 1)) :
                \A i, j \in 1..Len(l) : i # j => l[i] # l[j]}

\* The source texts of the parts that are composed: one part for every
\* text, and up to MaxParts parts of the source pool, in every order.
SourceLists ==
    {<< t >> : t \in Texts(MaxSourceLen)}
    \cup {[k \in 1..Len(l) |-> SourcePool[l[k]]] :
             l \in IndexLists(MaxParts) \ {<< >>}}

\* The part objects made from a list of source texts.
GivenParts(texts) ==
    [k \in 1..Len(texts) |-> ShaderCodePart(ComposeName(k), "1", texts[k])]

\* ------------------------------------------------------------------------
\* The uniforms of a ShaderCode
\* ------------------------------------------------------------------------

\* Python values passed as the value of a uniform.  A list is given by the
\* types of its elements, a texture object and a callable by an index.
UValue(kind, elems, id) == [kind |-> kind, elems |-> elems, id |-> id]

FloatV == UValue("float", << >>, 0)

IntV == UValue("int", << >>, 0)

ListV(elems) == UValue("list", elems, 0)

TexV(t) == UValue("texture", << >>, t)

ProdV(p) == UValue("callable", << >>, p)

StrV == UValue("str", << >>, 0)

NoneV == UValue("None", << >>, 0)

\* The list [unit] that _ApplyUniforms passes to SetUniformi for a texture.
UnitV(unit) == UValue("unit", << >>, unit)

\* No entry of that name in self._uniforms.
Absent == UValue("absent", << >>, 0)

\* The texture objects.
Textures == {1, 2}

\* The callables: what each returns, call after call in turn.  The first
\* returns another texture on every call; the second returns the first.
Yields ==
    << << TexV(1), TexV(2) >>,
       << ProdV(1), ProdV(1) >> >>

Producers == DOMAIN Yields

\* The names that are keys of self._uniforms, and the values tried for the
\* arguments of SetUniform.
UniformNames == {"u", "v"}

UniformNameValues ==
    {StrArg(n) : n \in UniformNames} \cup {StrArg(""), IntArg(7)}

UniformValues ==
    {IntV, ListV(<< >>), ListV(<< "float", "float" >>),
     ListV(<< "int", "int", "int", "int", "int" >>),
     TexV(1), TexV(2), ProdV(1), ProdV(2), StrV}

\* The outcome of a call of a uniform method: whether it raised, the table
\* and the producers' call counts it leaves, and the calls it made of
\* Enable(unit) on textures (texture, unit), of SetUniformi and SetUniformf
\* on the program (function, name, argument) and of Disable() on textures.
UOutcome(raised, us, inv, enables, calls, disables) ==
    [raised |-> raised, uniforms |-> us, invoked |-> inv,
     enables |-> enables, calls |-> calls, disables |-> disables]

\* ShaderCode.SetUniform(name, value)
DoSetUniform(name, value) ==
    IF name.kind # "str" \/ name.str = ""
    THEN UOutcome(TRUE, uniforms, invoked, << >>, << >>, << >>)
    ELSE IF value.kind \notin {"float", "int", "list", "texture", "callable"}
    THEN UOutcome(TRUE, uniforms, invoked, << >>, << >>, << >>)
    ELSE UOutcome(FALSE, [uniforms EXCEPT ![name.str] = value], invoked,
                  << >>, << >>, << >>)

\* What the callable p returns when inv counts its calls so far, and the
\* counts after that call.
Yielded(p, inv) == Yields[p][inv[p] + 1]

Invoke(p, inv) == [inv EXCEPT ![p] = 1 - @]

\* setuniform(name, value) of _ApplyUniforms.  st holds whether an exception
\* was raised, texture_id[0], the producers' call counts, and the calls made
\* so far of Enable on textures and of SetUniformi / SetUniformf on the
\* program.  value[0] of an empty list raises IndexError; a list whose first
\* element is neither float nor int sets nothing.
RECURSIVE ApplyValue(_, _, _)
ApplyValue(name, value, st) ==
    CASE value.kind = "float" ->
            [st EXCEPT !.calls = Append(@, << "SetUniformf", name, value >>)]
      [] value.kind = "int" ->
            [st EXCEPT !.calls = Append(@, << "SetUniformi", name, value >>)]
      [] value.kind = "list" ->
            IF Len(value.elems) = 0 THEN [st EXCEPT !.raised = TRUE]
            ELSE IF value.elems[1] = "float"
            THEN [st EXCEPT !.calls = Append(@, << "SetUniformf", name, value >>)]
            ELSE IF value.elems[1] = "int"
            THEN [st EXCEPT !.calls = Append(@, << "SetUniformi", name, value >>)]
            ELSE st
      [] value.kind = "texture" ->
            [st EXCEPT !.enables = Append(@, << value.id, st.texture_id >>),
                       !.calls = Append(@, << "SetUniformi", name,
                                              UnitV(st.texture_id) >>),
                       !.texture_id = @ + 1]
      [] value.kind = "callable" ->
            ApplyValue(name, Yielded(value.id, st.invoked),
                       [st EXCEPT !.invoked = Invoke(value.id, @)])
      [] OTHER -> [st EXCEPT !.raised = TRUE]

\* The loop "for name in self._uniforms" of _ApplyUniforms over the keys in
\* the order names; an exception ends it.
RECURSIVE ApplyLoop(_, _)
ApplyLoop(names, st) ==
    IF Len(names) = 0 \/ st.raised THEN st
    ELSE ApplyLoop(Tail(names), ApplyValue(Head(names), uniforms[Head(names)], st))

\* The value of texture_id[0] at the start of _ApplyUniforms.
FirstTextureId == 1

\* ShaderCode._ApplyUniforms(program), the keys of self._uniforms coming in
\* the order names.
DoApplyUniforms(names) ==
    LET Done(st) ==
            UOutcome(st.raised, uniforms, st.invoked, st.enables, st.calls, << >>)
    IN Done(ApplyLoop(names, [raised |-> FALSE, texture_id |-> FirstTextureId,
                              invoked |-> invoked, enables |-> << >>,
                              calls |-> << >>]))

\* setuniform(value) of _DisableUniformTextures: st holds the producers' call
\* counts and the calls made so far of Disable on textures.
RECURSIVE DisableValue(_, _)
DisableValue(value, st) ==
    CASE value.kind = "texture" ->
            [st EXCEPT !.disables = Append(@, value.id)]
      [] value.kind = "callable" ->
            DisableValue(Yielded(value.id, st.invoked),
                         [st EXCEPT !.invoked = Invoke(value.id, @)])
      [] OTHER -> st

\* The loop "for name in self._uniforms" of _DisableUniformTextures.
RECURSIVE DisableLoop(_, _)
DisableLoop(names, st) ==
    IF Len(names) = 0 THEN st
    ELSE DisableLoop(Tail(names), DisableValue(uniforms[Head(names)], st))

\* ShaderCode._DisableUniformTextures()
DoDisableUniformTextures(names) ==
    LET Done(st) ==
            UOutcome(FALSE, uniforms, st.invoked, << >>, << >>, st.disables)
    IN Done(DisableLoop(names, [invoked |-> invoked, disables |-> << >>]))

\* The keys of self._uniforms, and the orders in which a loop over the
\* dictionary can give them.
Keys == {n \in UniformNames : uniforms[n] # Absent}

KeyOrders ==
    {o \in [1..Cardinality(Keys) -> Keys] :
        \A i, j \in 1..Cardinality(Keys) : i # j => o[i] # o[j]}

\* ------------------------------------------------------------------------
\* The calls, as actions
\* ------------------------------------------------------------------------

\* Whether the buffer holds a line whose owner is the part of the list that
\* the value v denotes.
OwnsLine(v) ==
    /\ ~buffer.isNone
    /\ _IndexOfPart(parts, v) # NotPresent
    /\ \E k \in 1..Len(buffer.lines) :
          buffer.lines[k][2] = partNames(parts)[_IndexOfPart(parts, v) + 1]

\* The call op with its arguments had the outcome r.  last.tick alternates
\* with every call, so that a call that repeats the previous one and changes
\* no attribute is still a step of its own.  last.owned tells of a RemovePart
\* call whether the buffer held a line of the part it removed, and of a
\* GetCode call whether it comes right after such a RemovePart call.
Call(op, part, before, after, columnLimit, r) ==
    /\ parts' = r.parts
    /\ buffer' = r.buffer
    /\ dirtyForProgramFlag' = r.flag
    /\ last' = [op |-> op, part |-> part, before |-> before, after |-> after,
                columnLimit |-> columnLimit, raised |-> r.raised,
                retStr |-> r.retStr, retBool |-> r.retBool,
                compiled |-> r.compiled, tick |-> 1 - last.tick,
                owned |-> \/ op = "RemovePart" /\ OwnsLine(part)
                          \/ op = "GetCode" /\ last.op = "RemovePart" /\ last.owned]
    /\ UNCHANGED << composeVars, uniformVars >>

\* ShaderCode.__init__: the part list, the buffer and the flag.
InitCode ==
    /\ parts = << >>
    /\ buffer = None
    /\ dirtyForProgramFlag = TRUE
    /\ last = [op |-> "__init__", part |-> NoneArg, before |-> NoneArg,
               after |-> NoneArg, columnLimit |-> 0, raised |-> FALSE,
               retStr |-> "", retBool |-> FALSE, compiled |-> 0, tick |-> 0,
               owned |-> FALSE]

\* ShaderCode.__init__: the uniforms.
InitUniforms ==
    /\ uniforms = [n \in UniformNames |-> Absent]
    /\ invoked = [p \in Producers |-> 0]
    /\ lastEnabled = {}
    /\ ulast = [op |-> "__init__", name |-> NoneArg, value |-> Absent,
                raised |-> FALSE, enables |-> << >>, calls |-> << >>,
                disables |-> << >>, applied |-> FALSE, tick |-> 0]

\* ShaderCode.__init__
Init ==
    /\ InitCode
    /\ InitUniforms
    /\ sources = << >>
    /\ given = << >>
    /\ nparts = 0
    /\ composed = Returned(<< >>)

AddPart ==
    \E part \in PartValues, ba \in AnchorPairs :
        Call("AddPart", part, ba[1], ba[2], 0, DoAddPart(part, ba[1], ba[2]))

ReplacePart ==
    \E part \in PartValues :
        Call("ReplacePart", part, NoneArg, NoneArg, 0, DoReplacePart(part))

AddOrReplace ==
    \E part \in PartValues, ba \in AddOrReplacePairs :
        Call("AddOrReplace", part, ba[1], ba[2], 0,
             DoAddOrReplace(part, ba[1], ba[2]))

RemovePart ==
    \E part \in AnyValues :
        Call("RemovePart", part, NoneArg, NoneArg, 0, DoRemovePart(part))

HasPart ==
    \E part \in QueryValues :
        Call("HasPart", part, NoneArg, NoneArg, 0, DoHasPart(part))

Clear == Call("Clear", NoneArg, NoneArg, NoneArg, 0, DoClear)

GetCode == Call("GetCode", NoneArg, NoneArg, NoneArg, 0, DoGetCode)

ShowCode ==
    \E part \in QueryValues, columnLimit \in ColumnLimits :
        Call("ShowCode", part, NoneArg, NoneArg, columnLimit,
             DoShowCode(part, columnLimit))

IsDirtyForProgram ==
    Call("_isDirtyForProgram", NoneArg, NoneArg, NoneArg, 0, DoIsDirtyForProgram)

\* The call op of a uniform method had the outcome r.  lastEnabled keeps
\* the textures that the last _ApplyUniforms call enabled, ulast.applied
\* whether there was such a call; ulast.tick alternates with every call.
UCall(op, name, value, r) ==
    /\ uniforms' = r.uniforms
    /\ invoked' = r.invoked
    /\ lastEnabled' = IF op = "_ApplyUniforms"
                      THEN {r.enables[k][1] : k \in 1..Len(r.enables)}
                      ELSE lastEnabled
    /\ ulast' = [op |-> op, name |-> name, value |-> value,
                 raised |-> r.raised, enables |-> r.enables,
                 calls |-> r.calls, disables |-> r.disables,
                 applied |-> ulast.applied \/ op = "_ApplyUniforms",
                 tick |-> 1 - ulast.tick]
    /\ UNCHANGED << codeVars, composeVars >>

SetUniform ==
    \E name \in UniformNameValues, value \in UniformValues :
        UCall("SetUniform", name, value, DoSetUniform(name, value))

ApplyUniforms ==
    \E names \in KeyOrders :
        UCall("_ApplyUniforms", NoneArg, Absent, DoApplyUniforms(names))

DisableUniformTextures ==
    \E names \in KeyOrders :
        UCall("_DisableUniformTextures", NoneArg, Absent,
              DoDisableUniformTextures(names))

Next ==
    \/ AddPart
    \/ ReplacePart
    \/ AddOrReplace
    \/ RemovePart
    \/ HasPart
    \/ Clear
    \/ GetCode
    \/ ShowCode
    \/ IsDirtyForProgram

Spec == Init /\ [][Next]_vars

\* A new ShaderCode, and the part objects to add to it.
ComposeInit ==
    /\ InitCode
    /\ InitUniforms
    /\ sources \in SourceLists
    /\ given = GivenParts(sources)
    /\ nparts = 0
    /\ composed = Returned(<< >>)

\* AddPart(part) of the next of the given parts, at the end of the list, and
\* then GetCode(): _Compile of the parts added so far.
Compose ==
    /\ nparts < Len(given)
    /\ nparts' = nparts + 1
    /\ composed' = CompileLoop(SubSeq(given, 1, nparts + 1), << >>)
    /\ UNCHANGED << sources, given, codeVars, uniformVars >>

ComposeNext == Compose

ComposeSpec == ComposeInit /\ [][ComposeNext]_vars

\* The uniform methods of a ShaderCode, which read and write no attribute
\* that the methods of Next read or write.
UniformNext ==
    \/ SetUniform
    \/ ApplyUniforms
    \/ DisableUniformTextures

UniformSpec == Init /\ [][UniformNext]_vars

\* ------------------------------------------------------------------------
\* Properties of the part list and of the merge buffer
\* ------------------------------------------------------------------------

\* The name of the part object passed in the value v.
NameOf(v) == PartPool[v.id].name

\* The positions of the part list ps whose part the value v denotes: the
\* part of that name (a string) or that object (a part).
Positions(ps, v) ==
    {k \in 1..Len(ps) :
        \/ v.kind = "str" /\ PartPool[ps[k]].name = v.str
        \/ v.kind = "part" /\ ps[k] = v.id}

\* The list ps with x put in front of position k (k = Len(ps) + 1: at the end).
PutBefore(ps, k, x) ==
    [j \in 1..(Len(ps) + 1) |->
        IF j < k THEN ps[j] ELSE IF j = k THEN x ELSE ps[j - 1]]

\* The list ps without its position k.
Without(ps, k) ==
    [j \in 1..(Len(ps) - 1) |-> IF j < k THEN ps[j] ELSE ps[j + 1]]

\* The calls that change the part list.
Mutations == {"AddPart", "ReplacePart", "AddOrReplace", "RemovePart", "Clear"}

\* C1: after any sequence of AddPart, ReplacePart, AddOrReplace, RemovePart
\* and Clear calls, successful or failing, no two parts of the part list
\* have the same name.
C1_UniqueNames ==
    \A i, j \in 1..Len(parts) :
        i # j => PartPool[parts[i]].name # PartPool[parts[j]].name

\* C1's case: AddPart of another object of a name that a list of two or
\* more parts holds was refused.
C1_Witness ==
    /\ last.op = "AddPart"
    /\ last.raised
    /\ last.part.kind = "part"
    /\ Len(parts) >= 2
    /\ In(NameOf(last.part), partNames(parts))
    /\ ~In(last.part.id, parts)

\* C2: if the merge buffer is present it is the result of compiling the
\* current part list from scratch, and what GetCode returns (or that it
\* raises) is what GetCode gives on a fresh ShaderCode to which the same
\* parts were added in the same order.
C2_BufferIsCompileOfParts ==
    LET fresh == CompileLoop([k \in 1..Len(parts) |-> PartPool[parts[k]]], << >>)
    IN /\ ~buffer.isNone => ~fresh.raised /\ buffer.lines = fresh.lines
       /\ last.op = "GetCode" =>
             /\ last.raised = fresh.raised
             /\ ~last.raised => last.retStr = CodeOf(fresh.lines)

\* C2's case: GetCode returned the code of a list of three parts in which
\* a part that is not the first owns a line.
C2_Witness ==
    /\ last.op = "GetCode"
    /\ ~last.raised
    /\ Len(parts) = 3
    /\ ~buffer.isNone
    /\ \E k \in 1..Len(buffer.lines) :
          buffer.lines[k][2] # PartPool[parts[1]].name

\* C3: every successful structural mutation leaves the merge buffer None
\* and runs no merge; the merge is run only by GetCode or ShowCode called
\* while the buffer is None.
C3_LazyCompile ==
    [][/\ ( /\ last'.op \in Mutations
            /\ ~last'.raised
            /\ (last'.op = "RemovePart" => last'.retBool) )
          => buffer'.isNone
       /\ last'.op \in Mutations => last'.compiled = 0
       /\ last'.compiled > 0
          => last'.op \in {"GetCode", "ShowCode"} /\ buffer.isNone
       /\ (last'.op \in {"GetCode", "ShowCode"} /\ ~buffer.isNone)
          => last'.compiled = 0]_vars

\* C3's case: ShowCode ran the merge, for a list of two parts.
C3_Witness ==
    /\ last.op = "ShowCode"
    /\ last.compiled = 1
    /\ ~last.raised
    /\ Len(parts) = 2

C5_DuplicateNameRaises ==
    [][(/\ last'.op = "AddPart"
        /\ last'.part.kind = "part"
        /\ In(NameOf(last'.part), partNames(parts)))
       => last'.raised /\ parts' = parts]_vars

\* C5's case: AddPart of a second object of a name of the list was refused
\* although before named a part of the list and after was not given.
C5_Witness ==
    /\ last.op = "AddPart"
    /\ last.raised
    /\ last.part.kind = "part"
    /\ In(NameOf(last.part), partNames(parts))
    /\ ~In(last.part.id, parts)
    /\ Positions(parts, last.before) # {}
    /\ last.after = NoneArg

\* C6: an AddPart or ReplacePart call that raises leaves the part list and
\* the merge buffer exactly as they were.
C6_AllOrNothing ==
    [][(last'.op \in {"AddPart", "ReplacePart"} /\ last'.raised)
       => parts' = parts /\ buffer' = buffer]_vars

\* C6's case: with the buffer present, AddPart of a part of a new name was
\* refused because of its before or after arguments.
C6_Witness ==
    /\ last.op = "AddPart"
    /\ last.raised
    /\ last.part.kind = "part"
    /\ ~In(NameOf(last.part), partNames(parts))
    /\ ~buffer.isNone
    /\ Len(buffer.lines) > 0

\* C7: RemovePart never raises; for a name or an object that is present it
\* removes that one part, keeps the order of the others, leaves the buffer
\* None and returns True; otherwise it returns False and leaves the part
\* list and the buffer as they were.
C7_RemovePart ==
    [][last'.op = "RemovePart" =>
         /\ ~last'.raised
         /\ IF Positions(parts, last'.part) # {}
            THEN /\ last'.retBool
                 /\ buffer'.isNone
                 /\ \E k \in Positions(parts, last'.part) :
                       parts' = Without(parts, k)
            ELSE /\ ~last'.retBool
                 /\ parts' = parts
                 /\ buffer' = buffer]_vars

\* C7's case: RemovePart of an object that is not in the list, while another
\* object of its name is, returned False with the buffer present.
C7_Witness ==
    /\ last.op = "RemovePart"
    /\ ~last.retBool
    /\ last.part.kind = "part"
    /\ ~In(last.part.id, parts)
    /\ In(NameOf(last.part), partNames(parts))
    /\ ~buffer.isNone

\* C8: ReplacePart(p) with a part named p.name at index i puts p at index
\* i and leaves the length of the list and every other index as they were;
\* with no part of that name it raises and adds nothing.
C8_ReplaceInPlace ==
    [][(last'.op = "ReplacePart" /\ last'.part.kind = "part") =>
         IF In(NameOf(last'.part), partNames(parts))
         THEN /\ ~last'.raised
              /\ Len(parts') = Len(parts)
              /\ \A k \in 1..Len(parts) :
                    parts'[k] = IF PartPool[parts[k]].name = NameOf(last'.part)
                                THEN last'.part.id ELSE parts[k]
         ELSE last'.raised /\ parts' = parts]_vars

\* C8's case: ReplacePart put an object in the middle of a list of three
\* parts.
C8_Witness ==
    /\ last.op = "ReplacePart"
    /\ ~last.raised
    /\ Len(parts) = 3
    /\ parts[2] = last.part.id

\* C9: a successful AddPart(p, before=q) places p immediately before q, a
\* successful AddPart(p, after=q) immediately after q, for q given by name
\* or by object, and AddPart(p) appends p; the parts already present keep
\* their order, and partNames gives the new order.
C9_AddPartPlacement ==
    [][(last'.op = "AddPart" /\ ~last'.raised) =>
         /\ ( /\ last'.before.kind \in {"str", "part"}
              /\ last'.after = NoneArg
              /\ Positions(parts, last'.before) # {} )
            => \E k \in Positions(parts, last'.before) :
                  parts' = PutBefore(parts, k, last'.part.id)
         /\ ( /\ last'.after.kind \in {"str", "part"}
              /\ last'.before = NoneArg
              /\ Positions(parts, last'.after) # {} )
            => \E k \in Positions(parts, last'.after) :
                  parts' = PutBefore(parts, k + 1, last'.part.id)
         /\ (last'.before = NoneArg /\ last'.after = NoneArg)
            => parts' = Append(parts, last'.part.id)
         /\ partNames(parts') \in
               {PutBefore(partNames(parts), k, NameOf(last'.part)) :
                   k \in 1..(Len(parts) + 1)}]_vars

\* C10: AddOrReplace(p, before, after) does what ReplacePart(p) does when a
\* part named p.name is present and what AddPart(p, before, after) does
\* otherwise; after a successful call exactly one part of the list is named
\* p.name, and it is p.
C10_AddOrReplace ==
    [][(last'.op = "AddOrReplace" /\ last'.part.kind = "part") =>
         LET Same(r) ==
                 /\ last'.raised = r.raised
                 /\ parts' = r.parts
                 /\ buffer' = r.buffer
         IN /\ IF In(NameOf(last'.part), partNames(parts))
               THEN Same(DoReplacePart(last'.part))
               ELSE Same(DoAddPart(last'.part, last'.before, last'.after))
            /\ ~last'.raised =>
                  /\ Cardinality({k \in 1..Len(parts') :
                        PartPool[parts'[k]].name = NameOf(last'.part)}) = 1
                  /\ In(last'.part.id, parts')]_vars

\* C10's case: AddOrReplace replaced a part, in front of another one,
\* although its before argument names no part of the list.
C10_Witness ==
    /\ last.op = "AddOrReplace"
    /\ ~last.raised
    /\ last.before = StrArg("Z")
    /\ Len(parts) >= 2
    /\ parts[1] = last.part.id

\* ------------------------------------------------------------------------
\* Properties of compositions
\* ------------------------------------------------------------------------

\* The texts of the lines of a buffer that the part called name owns.
OwnedBy(lines, name) ==
    LET Pick(own) == [j \in 1..Len(own) |-> own[j][1]]
    IN Pick(SelectSeq(lines, LAMBDA l : l[2] = name))

\* The positions at which needle occurs in text.
OccurrencesAt(text, needle) ==
    {i \in 1..(Len(text) - Len(needle) + 1) :
        SubSeq(text, i, i + Len(needle) - 1) = needle}

\* Whether needle occurs in text; the empty needle occurs in every text.
Occurs(text, needle) == needle = "" \/ OccurrencesAt(text, needle) # {}

\* The needles of a part.
NeedlesOf(part) ==
    LET Set(secs) == {secs[k] : k \in 1..Len(secs)}
    IN Set(CollectSections(part.code).sections)

\* C11: a ShaderCode of exactly one part gives as its code the canonical
\* source of the part, for every source text, the empty one too.
C11_Identity ==
    nparts = 1 =>
        /\ ~composed.raised
        /\ CodeOf(composed.lines) = given[1].code

\* C11's case: the one part has an indented line after an empty line.
C11_Witness ==
    /\ nparts = 1
    /\ Len(given) = 1
    /\ ~composed.raised
    /\ Len(composed.lines) = 3
    /\ composed.lines[2][1] = ""
    /\ composed.lines[3][1] = " a"

\* C12: adding a part (to a list that has parts) none of whose needles
\* occurs in the matching text of the buffer leaves the buffer, its lines'
\* texts and their owners, as it was; so GetCode gives the same string.
C12_NoOpLaw ==
    [][( /\ nparts >= 1
         /\ nparts < Len(given)
         /\ ~composed.raised
         /\ \A needle \in NeedlesOf(given[nparts + 1]) :
               ~Occurs(dedentCode(composed.lines), needle) )
       => /\ ~composed'.raised
          /\ composed'.lines = composed.lines
          /\ CodeOf(composed'.lines) = CodeOf(composed.lines)]_vars

\* The lines that take the place of a needle found in the line i (counted
\* from 1) of the buffer lines: the lines of body, each behind as many
\* spaces as line i has whitespace characters in front, owned by name.
BodyLines(lines, i, body, name) ==
    LET Indented(new, indent) ==
            [k \in 1..Len(new) |-> << Spaces(indent) \o new[k], name >>]
    IN Indented(splitlines(body),
                Len(lines[i][1]) - Len(lstrip(lines[i][1])))

\* The buffer lines with the lines i..j replaced by new.
Replaced(lines, i, j, new) ==
    SubSeq(lines, 1, i - 1) \o new \o SubSeq(lines, j + 1, Len(lines))

\* C13: for parts [A, B] where B has one section (needle, body) and the
\* needle occurs exactly once in the matching text of A, in the buffer
\* lines i..j: the buffer of [A, B] is the buffer of [A] with the lines
\* i..j replaced by the lines of the body, each indented by as many spaces
\* as line i has leading whitespace characters and owned by B; the lines
\* outside i..j keep their text, order and owner.
C13_ReplacementLaw ==
    [][( /\ nparts = 1
         /\ nparts < Len(given)
         /\ ~composed.raised
         /\ Len(CollectSections(given[2].code).sections) = 1
         /\ CollectSections(given[2].code).sections[1] # ""
         /\ Cardinality(OccurrencesAt(dedentCode(composed.lines),
                          CollectSections(given[2].code).sections[1])) = 1 )
       => LET needle == CollectSections(given[2].code).sections[1]
              body   == CollectSections(given[2].code).codes[1]
              text   == dedentCode(composed.lines)
              at     == CHOOSE p \in OccurrencesAt(text, needle) : TRUE
              i      == count(SubSeq(text, 1, at - 1), "\n") + 1
              j      == i + count(needle, "\n")
          IN /\ ~composed'.raised
             /\ j <= Len(composed.lines)
             /\ composed'.lines =
                   Replaced(composed.lines, i, j,
                            BodyLines(composed.lines, i, body, given[2].name))]_vars

\* C13's case: the needle was found in an indented line, which a body of
\* two lines has replaced.
C13_Witness ==
    /\ nparts = 2
    /\ ~composed.raised
    /\ given[1].code = "a;\n  b;\nc;"
    /\ given[2].code = ">>b;\nd;\n  e;"
    /\ composed.lines = << << "a;", "A" >>, << "  d;", "B" >>,
                           << "    e;", "B" >>, << "c;", "A" >> >>

\* Whether the buffer r was made and has a line that the part called name
\* owns.
Owns(r, name) == ~r.raised /\ \E k \in 1..Len(r.lines) : r.lines[k][2] = name

\* Whether a needle of part occurs in the matching text of the buffer r.
Matches(r, part) ==
    /\ ~r.raised
    /\ \E needle \in NeedlesOf(part) : Occurs(dedentCode(r.lines), needle)

\* For parts A, B, C whose buffers are a for [A], ab for [A, B], abc for
\* [A, B, C] and acb for [A, C, B]: when no needle of C occurs in the text
\* of a and one does in the text of ab, C owns lines of abc and none of acb.
Visibility(a, ab, abc, acb, C) ==
    (~a.raised /\ ~Matches(a, C) /\ Matches(ab, C))
    => /\ Owns(abc, C.name)
       /\ ~acb.raised
       /\ ~Owns(acb, C.name)

\* C14: for parts A, B, C where the needle of C occurs only in text that B
\* brings in, the composition [A, B, C] has lines owned by C and the
\* composition [A, C, B] has none.
C14_SequentialVisibility ==
    nparts = 3 =>
        Visibility(CompileLoop(<< given[1] >>, << >>),
                   CompileLoop(<< given[1], given[2] >>, << >>),
                   composed,
                   CompileLoop(<< given[1], given[3], given[2] >>, << >>),
                   given[3])

\* Whether the sequence a is b with some of its elements left out.
RECURSIVE IsSubsequence(_, _)
IsSubsequence(a, b) ==
    IF Len(a) = 0 THEN TRUE
    ELSE IF Len(b) = 0 THEN FALSE
    ELSE IF Head(a) = Head(b) THEN IsSubsequence(Tail(a), Tail(b))
    ELSE IsSubsequence(a, Tail(b))

\* C16: the buffer of one part holds every line of the part's source, the
\* lines that start with '>>' too, with the part as owner; and in every
\* buffer the lines the first part owns are lines of its source, in their
\* order: none was put there by a replacement.
C16_BaseNeedleLinesLiteral ==
    /\ nparts = 1 =>
          /\ ~composed.raised
          /\ composed.lines =
                [k \in 1..Len(splitlines(given[1].code)) |->
                    << splitlines(given[1].code)[k], given[1].name >>]
    /\ (nparts >= 1 /\ ~composed.raised) =>
          IsSubsequence(OwnedBy(composed.lines, given[1].name),
                        splitlines(given[1].code))

\* C16's case: the first part has a needle line, which is in the buffer
\* after a line of the first part was replaced by a second part.
C16_Witness ==
    /\ nparts = 2
    /\ ~composed.raised
    /\ composed.lines = << << "a;", "A" >>, << ">>a;", "A" >>,
                           << "d;", "B" >>, << "  e;", "B" >> >>

\* C17: _Compile raises for no list of parts.
C17_CompileNeverRaises == ~composed.raised

\* ------------------------------------------------------------------------
\* Properties of the owners of the buffer lines
\* ------------------------------------------------------------------------

\* The name of the part that the value v, a name or a part object, denotes.
DenotedName(v) == IF v.kind = "str" THEN v.str ELSE NameOf(v)

\* C15: the owner of every line of a buffer is the name of a part of the
\* part list; and the GetCode that follows a successful RemovePart leaves a
\* buffer without a line owned by the part removed, whose lines are the code
\* it returns.
C15_OwnersArePresentParts ==
    [][/\ ~buffer'.isNone =>
             \A k \in 1..Len(buffer'.lines) :
                In(buffer'.lines[k][2], partNames(parts'))
       /\ ( /\ last.op = "RemovePart"
            /\ last.retBool
            /\ last'.op = "GetCode"
            /\ ~last'.raised )
          => /\ ~buffer'.isNone
             /\ OwnedBy(buffer'.lines, DenotedName(last.part)) = << >>
             /\ ~In(DenotedName(last.part), partNames(parts'))
             /\ last'.retStr = CodeOf(buffer'.lines)]_vars

\* C15's case: GetCode made the buffer anew after RemovePart had removed a
\* part that owned lines of the buffer, and other parts are left.
C15_Witness ==
    /\ last.op = "GetCode"
    /\ last.owned
    /\ ~last.raised
    /\ last.compiled = 1
    /\ ~buffer.isNone
    /\ Len(buffer.lines) >= 2

\* ------------------------------------------------------------------------
\* Properties of the uniforms
\* ------------------------------------------------------------------------

\* The values the uniform table is meant to hold: a number, a list of at
\* most 4 numbers that are all int or all float, a texture, a callable.
Permitted(value) ==
    \/ value.kind \in {"int", "float", "texture", "callable"}
    \/ /\ value.kind = "list"
       /\ Len(value.elems) <= 4
       /\ \/ \A k \in 1..Len(value.elems) : value.elems[k] = "int"
          \/ \A k \in 1..Len(value.elems) : value.elems[k] = "float"

\* C18: SetUniform(name, value) raises exactly when name is no string, is
\* empty, or value is not permitted; a call that raises leaves the table as
\* it was, and one that returns stores value under name.
C18_SetUniformValidates ==
    [][ulast'.op = "SetUniform" =>
         /\ ulast'.raised <=> ( \/ ulast'.name.kind # "str"
                                \/ ulast'.name.str = ""
                                \/ ~Permitted(ulast'.value) )
         /\ ulast'.raised => uniforms' = uniforms
         /\ ~ulast'.raised =>
               uniforms' = [uniforms EXCEPT ![ulast'.name.str] = ulast'.value]]_vars

\* Whether a value is a texture, or a callable that returns one.
RECURSIVE TextureValued(_)
TextureValued(value) ==
    \/ value.kind = "texture"
    \/ /\ value.kind = "callable"
       /\ \A k \in DOMAIN Yields[value.id] : TextureValued(Yields[value.id][k])

\* The calls in a sequence of calls, as a set.
CallSet(calls) == {calls[k] : k \in 1..Len(calls)}

\* C19: an _ApplyUniforms call over a table with k texture-valued uniforms
\* passes to Enable the units 1, ..., k, one to each texture uniform, and
\* sets the program's integer uniform of that name to that unit; the
\* numbering starts from 1 in every call.
C19_TextureUnits ==
    [][ulast'.op = "_ApplyUniforms" =>
         LET names == {n \in UniformNames : TextureValued(uniforms[n])}
             k     == Cardinality(names)
         IN /\ Len(ulast'.enables) = k
            /\ \A i \in 1..Len(ulast'.enables) : ulast'.enables[i][2] = i
            /\ \A n \in names :
                  Cardinality({i \in 1..k :
                     << "SetUniformi", n, UnitV(i) >> \in CallSet(ulast'.calls)}) = 1
            /\ \A i \in 1..k : \E n \in names :
                  << "SetUniformi", n, UnitV(i) >> \in CallSet(ulast'.calls)]_vars

\* C20: a _DisableUniformTextures call that comes after an _ApplyUniforms
\* call disables the textures that the last _ApplyUniforms call enabled,
\* and no other.
C20_DisableMirrorsApply ==
    [][(ulast'.op = "_DisableUniformTextures" /\ ulast.applied) =>
         {ulast'.disables[k] : k \in 1..Len(ulast'.disables)} = lastEnabled]_vars

\* The lines of the bodies of the sections of a part.
SectionBodyLines(part) ==
    LET Bodies(codes) ==
            UNION {{splitlines(codes[k])[m] :
                       m \in 1..Len(splitlines(codes[k]))} : k \in 1..Len(codes)}
    IN Bodies(CollectSections(part.code).codes)

\* C21: a part added after the first one comes into the buffer through its
\* sections only: every buffer line it owns is a line of one of its section
\* bodies behind some spaces, and it is not put into the buffer as it
\* stands when the parts before it left the buffer empty.
C21_OnlyFirstPartSeeds ==
    [][( /\ nparts >= 1
         /\ nparts < Len(given)
         /\ ~composed.raised
         /\ ~composed'.raised )
       => LET part == given[nparts + 1]
              own  == OwnedBy(composed'.lines, part.name)
          IN /\ \A k \in 1..Len(own) :
                   \E b \in SectionBodyLines(part) : lstrip(own[k]) = lstrip(b)
             /\ composed.lines = << >> => composed'.lines = << >>]_vars

\* The buffer lines with, for every line number i of starts, the lines
\* i..i+span replaced by the lines of body, which name owns; the ranges do
\* not overlap and are replaced from the last one to the first.
RECURSIVE ReplacedEach(_, _, _, _, _)
ReplacedEach(lines, starts, span, body, name) ==
    IF starts = {} THEN lines
    ELSE LET i == CHOOSE m \in starts : \A n \in starts : n <= m
         IN ReplacedEach(Replaced(lines, i, i + span,
                                  BodyLines(lines, i, body, name)),
                         starts \ {i}, span, body, name)

\* The numbers of the lines of text in which the occurrences of needle
\* begin.
OccurrenceLines(text, needle) ==
    {count(SubSeq(text, 1, at - 1), "\n") + 1 : at \in OccurrencesAt(text, needle)}

\* C22: for parts [A, B] where B has one section and its needle occurs
\* n >= 2 times in the matching text of A, in line ranges that do not
\* overlap: the buffer of [A, B] is the buffer of [A] with each of the n
\* ranges replaced by the lines of the body, all other lines unchanged.
C22_EveryOccurrenceReplaced ==
    [][( /\ nparts = 1
         /\ nparts < Len(given)
         /\ ~composed.raised
         /\ Len(CollectSections(given[2].code).sections) = 1
         /\ CollectSections(given[2].code).sections[1] # ""
         /\ LET needle == CollectSections(given[2].code).sections[1]
                text   == dedentCode(composed.lines)
                occ    == OccurrencesAt(text, needle)
                starts == OccurrenceLines(text, needle)
            IN /\ Cardinality(occ) >= 2
               /\ Cardinality(starts) = Cardinality(occ)
               /\ \A i, j \in starts : i < j => i + count(needle, "\n") < j )
       => LET needle == CollectSections(given[2].code).sections[1]
              body   == CollectSections(given[2].code).codes[1]
              text   == dedentCode(composed.lines)
          IN /\ ~composed'.raised
             /\ composed'.lines =
                   ReplacedEach(composed.lines, OccurrenceLines(text, needle),
                                count(needle, "\n"), body, given[2].name)]_vars

\* The buffer lines after the sections k, k+1, ... of secs were applied one
\* after the other, each to the lines the one before it left: a needle that
\* does not occur in the matching text of those lines changes nothing, a
\* needle that occurs once has the lines it spans replaced by its body.
\* ok is FALSE when a needle is empty or occurs more than once.
RECURSIVE AppliedInOrder(_, _, _, _)
AppliedInOrder(r, secs, k, name) ==
    IF k > Len(secs.sections) \/ ~r.ok THEN r
    ELSE LET needle == secs.sections[k]
             text   == dedentCode(r.lines)
             occ    == OccurrencesAt(text, needle)
             i      == count(SubSeq(text, 1, (CHOOSE p \in occ : TRUE) - 1), "\n") + 1
         IN IF needle = "" \/ Cardinality(occ) > 1
            THEN [ok |-> FALSE, lines |-> r.lines]
            ELSE IF occ = {}
            THEN AppliedInOrder(r, secs, k + 1, name)
            ELSE AppliedInOrder(
                     [ok |-> TRUE,
                      lines |-> Replaced(r.lines, i, i + count(needle, "\n"),
                                         BodyLines(r.lines, i, secs.codes[k], name))],
                     secs, k + 1, name)

\* C23: the sections of a part of two or more sections, added to a buffer
\* that has lines, are applied in their order, section k+1 to the matching
\* text of the buffer that section k left (for needles that occur at most
\* once when their turn comes): a later section finds what an earlier one
\* inserted and does not find what an earlier one removed.
C23_SectionsInOrder ==
    [][( /\ nparts >= 1
         /\ nparts < Len(given)
         /\ ~composed.raised
         /\ composed.lines # << >>
         /\ Len(CollectSections(given[nparts + 1].code).sections) >= 2
         /\ AppliedInOrder([ok |-> TRUE, lines |-> composed.lines],
                           CollectSections(given[nparts + 1].code), 1,
                           given[nparts + 1].name).ok )
       => /\ ~composed'.raised
          /\ composed'.lines =
                AppliedInOrder([ok |-> TRUE, lines |-> composed.lines],
                               CollectSections(given[nparts + 1].code), 1,
                               given[nparts + 1].name).lines]_vars

\* C23's case: the second section has replaced the line that the first
\* section had inserted, and the third section, whose needle the first one
\* had removed, has found nothing.
C23_Witness ==
    /\ nparts = 2
    /\ ~composed.raised
    /\ given[1].code = "a;\n  b;\nc;"
    /\ given[2].code = ">>b;\nq;\n>>q;\nr;\n>>b;\nz;"
    /\ composed.lines = << << "a;", "A" >>, << "  r;", "B" >>, << "c;", "A" >> >>

\* The sections of a source text read line by line: st holds the needles,
\* the lines of each body, and whether the line before was a needle line.
RECURSIVE SectionScan(_, _)
SectionScan(lines, st) ==
    IF Len(lines) = 0 THEN st
    ELSE LET line == Head(lines)
             n    == Len(st.needles)
         IN SectionScan(Tail(lines),
                IF startswith(line, ">>")
                THEN IF st.inRun
                     THEN [st EXCEPT !.needles[n] =
                                        @ \o "\n" \o lstrip(SliceFrom(line, 2))]
                     ELSE [needles |-> Append(st.needles, lstrip(SliceFrom(line, 2))),
                           bodies  |-> Append(st.bodies, << >>),
                           inRun   |-> TRUE]
                ELSE IF n = 0 THEN st
                ELSE [st EXCEPT !.bodies[n] = Append(@, line), !.inRun = FALSE])

\* The (needle, body) pairs of a source text: one for every run of
\* consecutive lines that start with '>>'; the body is the lines between
\* the run and the next needle line, without trailing whitespace and with
\* one line break at the end.
SectionsByLine(code) ==
    LET Pairs(st) ==
            [sections |-> st.needles,
             codes |-> [k \in 1..Len(st.bodies) |->
                           rstrip(join("\n", st.bodies[k])) \o "\n"]]
    IN Pairs(SectionScan(splitlines(code),
                         [needles |-> << >>, bodies |-> << >>, inRun |-> FALSE]))

\* C24: for every part object, CollectSections gives the needles and the
\* bodies that reading its source line by line gives, also when the text of
\* a needle line stands in the middle of an earlier line.
C24_SectionsByLine ==
    \A k \in 1..Len(given) :
        CollectSections(given[k].code) = SectionsByLine(given[k].code)

\* The buffer lines without their indentation.
Unindented(lines) ==
    [k \in 1..Len(lines) |-> << strip(lines[k][1]), lines[k][2] >>]

\* The texts of the buffer lines without their indentation, one per line.
StrippedText(lines) ==
    join("\n", [k \in 1..Len(lines) |-> Unindented(lines)[k][1]])

\* C25: for a part of one section with a non-empty needle that is added to
\* a buffer that has lines: the section is applied exactly when the needle
\* is a substring, character for character, of the matching text; the
\* matching text of the result is the same when the buffer lines have lost
\* their indentation beforehand; and when the needle occurs once, the
\* lines it begins and ends in go as a whole, with the code around the
\* needle, and the lines of the body stand in their place.
C25_SubstringOfStrippedLines ==
    [][( /\ nparts >= 1
         /\ nparts < Len(given)
         /\ ~composed.raised
         /\ composed.lines # << >>
         /\ Len(CollectSections(given[nparts + 1].code).sections) = 1
         /\ CollectSections(given[nparts + 1].code).sections[1] # "" )
       => LET part   == given[nparts + 1]
              needle == CollectSections(part.code).sections[1]
              body   == CollectSections(part.code).codes[1]
              text   == StrippedText(composed.lines)
              occ    == OccurrencesAt(text, needle)
              flat   == CompileLoop(<< part >>, Unindented(composed.lines))
              i      == count(SubSeq(text, 1, (CHOOSE p \in occ : TRUE) - 1), "\n") + 1
              j      == i + count(needle, "\n")
          IN /\ occ = {} => composed' = composed
             /\ occ # {} => composed'.raised \/ OwnedBy(composed'.lines, part.name) # << >>
             /\ flat.raised = composed'.raised
             /\ StrippedText(flat.lines) = StrippedText(composed'.lines)
             /\ Cardinality(occ) = 1 =>
                   /\ ~composed'.raised
                   /\ Len(composed'.lines) =
                         Len(composed.lines) - (j - i + 1) + Len(splitlines(body))
                   /\ \A k \in 1..Len(composed'.lines) :
                         composed'.lines[k] =
                            IF k < i THEN composed.lines[k]
                            ELSE IF k < i + Len(splitlines(body))
                            THEN << Spaces(Len(composed.lines[i][1])
                                           - Len(lstrip(composed.lines[i][1])))
                                    \o splitlines(body)[k - i + 1], part.name >>
                            ELSE composed.lines[k - Len(splitlines(body)) + (j - i + 1)]]_vars

\* C25's case: the needle 'b;' was found inside the indented line
\* 'p(b;) r', and the whole line has made way for the two lines of the body.
C25_Witness ==
    /\ nparts = 2
    /\ ~composed.raised
    /\ given[1].code = "q;\n\tp(b;) r"
    /\ given[2].code = ">>b;\nd;\n  e;"
    /\ composed.lines = << << "q;", "A" >>, << " d;", "B" >>, << "   e;", "B" >> >>


\* ------------------------------------------------------------------------
\* Properties of the dirty flag and of ShowCode
\* ------------------------------------------------------------------------

\* C26: _isDirtyForProgram gives True when it is read for the first time
\* and when it is read right after a call that changed the part list, and
\* gives False when it is read right after it was read, no other call in
\* between.
C26_DirtyForProgramSinceLastRead ==
    [][last'.op = "_isDirtyForProgram" =>
         /\ ~last'.raised
         /\ last.op = "__init__" => last'.retBool
         /\ ( /\ last.op \in Mutations
              /\ ~last.raised
              /\ last.op = "RemovePart" => last.retBool
              /\ last.op = "Clear" => FALSE )
            => last'.retBool
         /\ last.op = "_isDirtyForProgram" => ~last'.retBool]_vars

\* The line number n and the text of a buffer line as one output line of at
\* most columnLimit characters.
Numbered(n, text, columnLimit) ==
    LET Cut(full) ==
            IF Len(full) > columnLimit
            THEN SubSeq(full, 1, columnLimit - 3) \o "..."
            ELSE full
    IN Cut(Fmt03(n) \o "|" \o text)

\* The output lines for the buffer lines that the part called name owns,
\* each with its number in the whole buffer.
OwnedNumbered(lines, name, columnLimit) ==
    LET Pick(nrs) ==
            [k \in 1..Len(nrs) |-> Numbered(nrs[k], lines[nrs[k]][1], columnLimit)]
    IN Pick(SelectSeq([k \in 1..Len(lines) |-> k],
                      LAMBDA k : lines[k][2] = name))

\* C28: a ShowCode call that is given a part of the list, by name or as an
\* object, and returns, prints the buffer lines that this part owns and no
\* other, in the order of the buffer, each with its number in the whole
\* buffer and cut to columnLimit characters.
C28_ShowCodeOfPart ==
    [][( /\ last'.op = "ShowCode"
         /\ ~last'.raised
         /\ last'.part.kind \in {"str", "part"}
         /\ In(DenotedName(last'.part), partNames(parts)) )
       => /\ last'.retStr =
                join("\n", OwnedNumbered(buffer'.lines, DenotedName(last'.part),
                                         last'.columnLimit))
          /\ \A k \in 1..Len(buffer'.lines) :
                Len(Numbered(k, buffer'.lines[k][1], last'.columnLimit))
                   <= last'.columnLimit]_vars


\* ------------------------------------------------------------------------
\* Properties of applying the uniforms
\* ------------------------------------------------------------------------

\* C27: an _ApplyUniforms call over a table that SetUniform calls have
\* filled, whose callables return textures, returns, and has passed to the
\* program a SetUniformi or SetUniformf call for every name of the table.
C27_ApplyNeverRaises ==
    [][( /\ ulast'.op = "_ApplyUniforms"
         /\ \A n \in UniformNames :
               uniforms[n].kind = "callable" => TextureValued(uniforms[n]) )
       => /\ ~ulast'.raised
          /\ \A n \in Keys :
                \E c \in CallSet(ulast'.calls) :
                    c[1] \in {"SetUniformi", "SetUniformf"} /\ c[2] = n]_vars


\* ------------------------------------------------------------------------
\* Properties of the canonical source of a part
\* ------------------------------------------------------------------------

\* The lines of a text without the blank lines at its beginning and end.
RECURSIVE TrimBlankLines(_)
TrimBlankLines(lines) ==
    IF Len(lines) = 0 THEN lines
    ELSE IF strip(Head(lines)) = "" THEN TrimBlankLines(Tail(lines))
    ELSE IF strip(lines[Len(lines)]) = ""
    THEN TrimBlankLines(SubSeq(lines, 1, Len(lines) - 1))
    ELSE lines

\* The number of whitespace characters in front of a line.
Indentation(line) == Len(line) - Len(lstrip(line))

\* Whether code is a canonical form of the text raw.
CanonicalOf(code, raw) ==
    LET lines == splitlines(code)
        given0 == TrimBlankLines(splitlines(raw))
        real  == {k \in 1..Len(lines) : strip(lines[k]) # ""}
    IN /\ rstrip(code) = code
       /\ Len(lines) > 0 => 1 \in real /\ Len(lines) \in real
       /\ \A k \in 1..Len(lines) : rstrip(lines[k]) = lines[k]
       /\ real # {} => \E k \in real : Indentation(lines[k]) = 0
       /\ Len(given0) = Len(lines)
       /\ \A k \in 1..Len(lines) : strip(given0[k]) = strip(lines[k])
       /\ \A k, m \in real :
             Indentation(lines[k]) - Indentation(lines[m])
                = Indentation(given0[k]) - Indentation(given0[m])

\* C29: the source that a part object added to a ShaderCode holds has no
\* blank line at its beginning or end and no whitespace at the end of a
\* line, its least indented line that is not blank has indentation 0, and
\* its lines are the lines of the text given, each as far from the others'
\* indentation as it was; a part made from that source holds the same
\* source; and composing parts leaves the sources of the part objects as
\* they are.
C29_CanonicalSource ==
    /\ [](nparts >= 1 =>
             /\ CanonicalOf(given[nparts].code, sources[nparts])
             /\ ShaderCodePart(given[nparts].name, given[nparts].version,
                               given[nparts].code) = given[nparts])
    /\ [][given' = given]_vars

\* C29's case: a part made from a text with a blank line in front, an
\* indented line with whitespace behind it and a line indented less was
\* composed.
C29_Witness ==
    /\ nparts = 1
    /\ sources = << "\n a \na" >>
    /\ given[1].code = " a\na"
    /\ composed = Returned(<< << " a", "A" >>, << "a", "A" >> >>)


\* ------------------------------------------------------------------------
\* Properties of the parts after the first
\* ------------------------------------------------------------------------

\* The lines from the first needle line on.
RECURSIVE FromFirstNeedle(_)
FromFirstNeedle(lines) ==
    IF Len(lines) = 0 \/ startswith(Head(lines), ">>") THEN lines
    ELSE FromFirstNeedle(Tail(lines))

\* The part without the lines in front of its first needle line.
WithoutPreamble(part) ==
    [part EXCEPT !.code = join("\n", FromFirstNeedle(splitlines(part.code)))]

\* C30: adding, after the first part, a part that has no needle line leaves
\* the buffer, texts and owners, as it was; and adding a part gives the
\* buffer that adding it without the lines in front of its first needle
\* line gives.
C30_NothingOutsideSections ==
    [][( /\ nparts >= 1
         /\ nparts < Len(given)
         /\ ~composed.raised )
       => /\ NeedlesOf(given[nparts + 1]) = {} => composed' = composed
          /\ composed' =
                CompileLoop(Append(SubSeq(given, 1, nparts),
                                   WithoutPreamble(given[nparts + 1])), << >>)]_vars

=============================================================================
